---- MODULE Spec2Model ----
(***************************************************************************)
(* State-machine model of the Sim Studio Python SDK client                 *)
(* (packages/python-sdk/simstudio/__init__.py): one SimStudioClient, its   *)
(* configuration, its requests.Session and the outcome of every call.      *)
(*                                                                         *)
(* Representation.                                                         *)
(*  - A Python str that the code formats or trims (base_url, the URL, an   *)
(*    error message) is a sequence of segments; the segment "/" is the     *)
(*    one-character string '/', every other segment is a non-empty piece   *)
(*    of text that does not end with '/'.                                  *)
(*  - A Python Optional value is None (the empty sequence) or Some(v).     *)
(*  - A call's outcome is Return(value) or Raise(exception...).            *)
(***************************************************************************)
EXTENDS Integers, Sequences, FiniteSets, TLC

\* ------------------------------------------------------------------ bounds
\* Longest base_url argument, in segments.
MaxUrlLen == 3

\* ----------------------------------------------------------- Python values
None == <<>>
Some(v) == <<v>>

Return(v) == [kind |-> "return", value |-> v]

\* SimStudioError(message, code=None, status=None)
SimStudioError(message, code, status) ==
    [kind |-> "raise", exc |-> "SimStudioError",
     message |-> message, code |-> code, status |-> status]

\* Any exception that is not a SimStudioError (KeyError, TypeError,
\* AttributeError, ValueError): only its class matters.
OtherError(exc) ==
    [kind |-> "raise", exc |-> exc,
     message |-> <<>>, code |-> None, status |-> None]

\* dict.get(key) and dict.get(key, default)
get(d, key) == IF key \in DOMAIN d THEN Some(d[key]) ELSE None
getd(d, key, default) == IF key \in DOMAIN d THEN d[key] ELSE default

\* ------------------------------------------------------------------ inputs
\* The constructor's key, and the keys set_api_key is given.
InitApiKeys == {"test-api-key"}
ApiKeys == {"test-api-key", "new-api-key"}
WorkflowIds == {"wf-1", "wf-2"}
DefaultTimeout == 30
\* (input_data, timeout) of an execute call: both left to their defaults, or
\* both given.
ExecuteArgs == {<<"None", DefaultTimeout>>, <<"{x:1}", 5>>}

\* str(timeout) of a float
str_float(t) == IF t = 30 THEN "30.0" ELSE "5.0"
\* str(status_code) of an int
str_int(n) ==
    CASE n = 200 -> "200" [] n = 300 -> "300" [] n = 403 -> "403"
      [] OTHER -> "?"

UrlSegments == {"https://test.sim.ai", "/"}

RECURSIVE SeqsUpTo(_, _)
SeqsUpTo(S, n) ==
    IF n = 0 THEN {<<>>}
    ELSE LET shorter == SeqsUpTo(S, n - 1)
         IN shorter \cup {Append(s, x) : s \in {t \in shorter : Len(t) = n - 1}, x \in S}

\* Every base_url a caller may pass.
BaseUrlArgs == SeqsUpTo(UrlSegments, MaxUrlLen)

\* The default of the base_url parameter.
default_base_url == <<"https://simstudio.ai">>


\* Mutant: a trim that drops one trailing '/' only.
strip_one(s) ==
    IF s # <<>> /\ s[Len(s)] = "/" THEN SubSeq(s, 1, Len(s) - 1) ELSE s

\* str.rstrip('/'): drops every trailing '/'.
RECURSIVE rstrip(_)
rstrip(s) ==
    IF s # <<>> /\ s[Len(s)] = "/" THEN rstrip(SubSeq(s, 1, Len(s) - 1)) ELSE s

\* f"{self.base_url}/api/workflows/{workflow_id}/execute"
execute_url(b, workflow_id) ==
    b \o <<"/", "api", "/", "workflows", "/", workflow_id, "/", "execute">>

\* f"{self.base_url}/api/workflows/{workflow_id}/status"
status_url(b, workflow_id) ==
    b \o <<"/", "api", "/", "workflows", "/", workflow_id, "/", "status">>

\* ------------------------------------------------------- the HTTP exchange
\* What one blocking self._session.post / .get can end in: the deadline is
\* exceeded, the connection fails, or a response arrives.
StatusCodes == {200, 300, 403}

reason(status_code) ==
    CASE status_code = 200 -> "OK"
      [] status_code = 300 -> "Multiple Choices"
      [] status_code = 403 -> "Forbidden"
      [] OTHER -> "Internal Server Error"

\* JSON objects a response body may hold (a field's value once decoded).
JsonObjects ==
    { [success |-> TRUE, output |-> "x1"],
      [metadata |-> "m1"],
      [error |-> <<"not deployed">>],
      [error |-> <<"Unauthorized">>, code |-> "UNAUTHORIZED"],
      [code |-> "USAGE_LIMIT_EXCEEDED"],
      [isDeployed |-> TRUE, deployedAt |-> "2023-01-01T00:00:00Z"],
      [isDeployed |-> FALSE] }

\* A body is text that is not JSON ("invalid"), a JSON object, or JSON of
\* another shape.
NotObject == [text |-> "-"]
Bodies ==
    {[kind |-> k, value |-> NotObject] : k \in {"invalid", "array", "string", "number", "null"}}
    \cup {[kind |-> "object", value |-> o] : o \in JsonObjects}

NoResponse == [status_code |-> 0, reason |-> "", body |-> [kind |-> "invalid", value |-> NotObject]]

\* modern: the installed requests raises its own JSONDecodeError for a body
\* that is not JSON (it only matters for such a body).
Transport ==
    {[kind |-> k, response |-> NoResponse, modern |-> TRUE] :
        k \in {"timeout", "connection_error"}}
    \cup {tr \in [kind : {"response"}, modern : BOOLEAN,
                  response : {[status_code |-> s, reason |-> reason(s), body |-> b] :
                                 s \in StatusCodes, b \in Bodies}] :
              tr.modern \/ tr.response.body.kind = "invalid"}

\* Exception classes, by what the except clauses of the client test.
IsTimeout(exc) == exc = "Timeout"
IsRequestException(exc) == exc \in {"Timeout", "ConnectionError", "JSONDecodeError"}
IsValueError(exc) == exc \in {"ValueError", "JSONDecodeError"}
IsSimStudioError(exc) == exc = "SimStudioError"

\* str(e) of a requests exception
str_exc(exc) ==
    CASE exc = "Timeout" -> "timed out"
      [] exc = "ConnectionError" -> "connection refused"
      [] OTHER -> "invalid JSON"

\* self._session.post(...) / self._session.get(...): the response, or the
\* transport's exception.
session_send(t) ==
    IF t.kind = "response" THEN Return(t.response)
    ELSE IF t.kind = "timeout" THEN OtherError("Timeout")
    ELSE OtherError("ConnectionError")

\* response.ok: the status is not a client or server error (400..599).
ok(response) == ~(400 <= response.status_code /\ response.status_code < 600)

\* response.json(): the decoded body. A body that is not JSON raises
\* requests' JSONDecodeError (a RequestException and a ValueError) on
\* requests >= 2.27, and a plain ValueError on the older releases that
\* install_requires admits.
response_json(response, modern) ==
    IF response.body.kind = "invalid"
    THEN OtherError(IF modern THEN "JSONDecodeError" ELSE "ValueError")
    ELSE Return(response.body)

\* f'HTTP {response.status_code}: {response.reason}'
http_fallback(response) ==
    <<"HTTP ", str_int(response.status_code), ": ", response.reason>>


\* Mutant: the block forgets the body's code.
execute_not_ok_no_code(response, modern) ==
    [kind |-> "raise", exc |-> "SimStudioError",
     message |-> getd(response.body.value, "error", http_fallback(response)),
     code |-> None, status |-> Some(response.status_code)]

\* ------------------------------------------------ execute_workflow, 87-120
\* The `if not response.ok:` block of execute_workflow: the exception its
\* raise statement, or a failing statement before it, leaves the block with.
\* .get on a decoded body that is no dict raises AttributeError, which
\* `except (ValueError, KeyError)` does not catch.
execute_not_ok(response, modern) ==
    LET j == response_json(response, modern)
    IN IF j.kind = "raise"
       THEN IF IsValueError(j.exc)
            THEN SimStudioError(http_fallback(response), None, Some(response.status_code))
            ELSE j
       ELSE IF j.value.kind # "object"
            THEN OtherError("AttributeError")
            ELSE SimStudioError(getd(j.value.value, "error", http_fallback(response)),
                                get(j.value.value, "code"),
                                Some(response.status_code))

\* WorkflowExecutionResult(success=result_data['success'], ...)
execution_result(result_data) ==
    [success |-> result_data.success,
     output |-> get(result_data, "output"),
     error |-> get(result_data, "error"),
     logs |-> get(result_data, "logs"),
     metadata |-> get(result_data, "metadata"),
     trace_spans |-> get(result_data, "traceSpans"),
     total_duration |-> get(result_data, "totalDuration")]

\* The statements after the block, for an ok response: subscripting a body
\* that is no dict raises TypeError, a dict without 'success' KeyError.
execute_ok(response, modern) ==
    LET j == response_json(response, modern)
    IN IF j.kind = "raise" THEN j
       ELSE IF j.value.kind # "object" THEN OtherError("TypeError")
       ELSE IF "success" \notin DOMAIN j.value.value THEN OtherError("KeyError")
       ELSE Return(execution_result(j.value.value))

\* The body of the try statement.
execute_try(t, modern) ==
    LET sent == session_send(t)
    IN IF sent.kind = "raise" THEN sent
       ELSE IF ~ok(sent.value) THEN execute_not_ok(sent.value, modern)
       ELSE execute_ok(sent.value, modern)


\* Mutant: the except clauses in the other order, RequestException first.
execute_except_swapped(o, timeout) ==
    IF o.kind = "raise" /\ IsRequestException(o.exc)
    THEN SimStudioError(<<"Failed to execute workflow: ", str_exc(o.exc)>>,
                        Some("EXECUTION_ERROR"), None)
    ELSE o

\* The except clauses of execute_workflow, in their order.
execute_except(o, timeout) ==
    IF o.kind = "raise" /\ IsTimeout(o.exc)
    THEN SimStudioError(<<"Workflow execution timed out after ", str_float(timeout), " seconds">>,
                        Some("TIMEOUT"), None)
    ELSE IF o.kind = "raise" /\ IsRequestException(o.exc)
    THEN SimStudioError(<<"Failed to execute workflow: ", str_exc(o.exc)>>,
                        Some("EXECUTION_ERROR"), None)
    ELSE o

execute_workflow_outcome(t, timeout, modern) ==
    execute_except(execute_try(t, modern), timeout)

\* -------------------------------------------- get_workflow_status, 137-161
status_not_ok(response, modern) ==
    LET j == response_json(response, modern)
    IN IF j.kind = "raise"
       THEN IF IsValueError(j.exc)
            THEN SimStudioError(http_fallback(response), None, Some(response.status_code))
            ELSE j
       ELSE IF j.value.kind # "object"
            THEN OtherError("AttributeError")
            ELSE SimStudioError(getd(j.value.value, "error", http_fallback(response)),
                                get(j.value.value, "code"),
                                Some(response.status_code))

\* WorkflowStatus(is_deployed=status_data.get('isDeployed', False), ...)
workflow_status(status_data) ==
    [is_deployed |-> getd(status_data, "isDeployed", FALSE),
     deployed_at |-> get(status_data, "deployedAt"),
     is_published |-> getd(status_data, "isPublished", FALSE),
     needs_redeployment |-> getd(status_data, "needsRedeployment", FALSE)]

status_ok(response, modern) ==
    LET j == response_json(response, modern)
    IN IF j.kind = "raise" THEN j
       ELSE IF j.value.kind # "object" THEN OtherError("AttributeError")
       ELSE Return(workflow_status(j.value.value))

status_try(t, modern) ==
    LET sent == session_send(t)
    IN IF sent.kind = "raise" THEN sent
       ELSE IF ~ok(sent.value) THEN status_not_ok(sent.value, modern)
       ELSE status_ok(sent.value, modern)

\* The one except clause of get_workflow_status.
status_except(o) ==
    IF o.kind = "raise" /\ IsRequestException(o.exc)
    THEN SimStudioError(<<"Failed to get workflow status: ", str_exc(o.exc)>>,
                        Some("STATUS_ERROR"), None)
    ELSE o

get_workflow_status_outcome(t, modern) == status_except(status_try(t, modern))


\* Mutant: validate_workflow without its try/except.
validate_outcome_propagating(o) ==
    IF o.kind = "return" THEN Return(o.value.is_deployed) ELSE o

\* ------------------------------------------------ validate_workflow, 173-177
validate_outcome(o) ==
    IF o.kind = "return" THEN Return(o.value.is_deployed)
    ELSE IF IsSimStudioError(o.exc) THEN Return(FALSE)
    ELSE o

\* --------------------------------------------------------------- the client
VARIABLES
    api_key,            \* self.api_key
    base_url,           \* self.base_url
    session,            \* self._session: its default headers, and whether
                        \* its connection pools are released
    in_with,            \* control is inside a `with client:` body
    base_url_defaulted, \* base_url still comes from the constructor's default
    last                \* the latest call: its arguments, the requests it
                        \* sent, the Session calls it made, its outcome

vars == <<api_key, base_url, session, in_with, base_url_defaulted, last>>

\* was_closed is recorded for close and __exit__: the session was already
\* closed when the call began.
Call(op, args, sent, session_calls, inner, outcome) ==
    [op |-> op, args |-> args, sent |-> sent, session_calls |-> session_calls,
     inner |-> inner, outcome |-> outcome, was_closed |-> FALSE]

\* requests.Session() followed by headers.update({...}), lines 59-63
new_session(key) ==
    [headers |-> [X_API_Key |-> key, Content_Type |-> "application/json"],
     closed |-> FALSE]


\* Mutant: set_api_key leaves the session's header alone.
keep_api_key_header(s, key) == s

\* self._session.headers.update({'X-API-Key': api_key}), line 214
update_api_key_header(s, key) == [s EXCEPT !.headers.X_API_Key = key]

\* Session.close() releases the pools; sending a request acquires them again.
RECURSIVE session_apply(_, _)
session_apply(s, calls) ==
    IF calls = <<>> THEN s
    ELSE session_apply([s EXCEPT !.closed = (Head(calls) = "close")], Tail(calls))


\* Mutant: the base URL is stored as given.
keep_base_url(url) == url

\* self.base_url = base_url.rstrip('/'), lines 58 and 223
normalize_base_url(url) == rstrip(url)

\* json=input_data or {}
or_empty(input_data) == IF input_data \in {"None", "{}"} THEN "{}" ELSE input_data

\* The request self._session.post(url, json=..., timeout=...) puts on the wire.
post_request(s, url, input_data, timeout) ==
    [method |-> "POST", url |-> url, headers |-> s.headers,
     json |-> Some(or_empty(input_data)), timeout |-> Some(timeout)]

\* The request self._session.get(url) puts on the wire.
get_request(s, url) ==
    [method |-> "GET", url |-> url, headers |-> s.headers,
     json |-> None, timeout |-> None]

\* The calls close() makes on self._session, line 227.
close_calls == <<"close">>


\* Mutant: __exit__ does not close.
exit_calls_none == <<>>

\* The calls __exit__ makes on self._session (through self.close()), line 235.
exit_calls == close_calls

\* What __exit__ returns: it has no return statement.
exit_return == None

\* The with statement: an exception of the body propagates unless __exit__
\* returns a true value.
with_outcome(body_exc, returned) ==
    IF body_exc # None /\ returned = None THEN OtherError(body_exc[1])
    ELSE Return(None)

\* __init__(api_key, base_url=default), lines 56-63. base_url_arg is None
\* when the caller leaves the parameter out.
Init ==
    \E key \in InitApiKeys, base_url_arg \in {None} \cup {Some(u) : u \in BaseUrlArgs} :
        /\ api_key = key
        /\ base_url = normalize_base_url(IF base_url_arg = None THEN default_base_url
                                         ELSE base_url_arg[1])
        /\ session = new_session(key)
        /\ in_with = FALSE
        /\ base_url_defaulted = (base_url_arg = None)
        /\ last = Call("__init__", <<key, base_url_arg>>, <<>>, <<>>, None, Return(None))

execute_workflow(workflow_id, input_data, timeout) ==
    \E t \in Transport :
        LET request == post_request(session, execute_url(base_url, workflow_id),
                                    input_data, timeout)
            outcome == execute_workflow_outcome(t, timeout, t.modern)
        IN /\ last' = Call("execute_workflow", <<workflow_id, input_data, timeout>>,
                           <<[request |-> request, transport |-> t]>>, <<"send">>,
                           None, outcome)
           /\ session' = session_apply(session, <<"send">>)
           /\ UNCHANGED <<api_key, base_url, in_with, base_url_defaulted>>

\* Mutant: execute_workflow_sync sends a request that timed out a second time.
execute_workflow_sync_retrying(workflow_id, input_data, timeout) ==
    \E t \in Transport, again \in Transport :
        LET request == post_request(session, execute_url(base_url, workflow_id),
                                    input_data, timeout)
            retried == t.kind = "timeout"
            inner == execute_workflow_outcome(IF retried THEN again ELSE t, timeout,
                                              IF retried THEN again.modern ELSE t.modern)
        IN /\ retried \/ again = t
           /\ last' = Call("execute_workflow_sync", <<workflow_id, input_data, timeout>>,
                           IF retried
                           THEN <<[request |-> request, transport |-> t],
                                  [request |-> request, transport |-> again]>>
                           ELSE <<[request |-> request, transport |-> t]>>,
                           <<"send">>, Some(inner), inner)
           /\ session' = session_apply(session, <<"send">>)
           /\ UNCHANGED <<api_key, base_url, in_with, base_url_defaulted>>

\* return self.execute_workflow(workflow_id, input_data, timeout), line 204
execute_workflow_sync(workflow_id, input_data, timeout) ==
    \E t \in Transport :
        LET request == post_request(session, execute_url(base_url, workflow_id),
                                    input_data, timeout)
            inner == execute_workflow_outcome(t, timeout, t.modern)
        IN /\ last' = Call("execute_workflow_sync", <<workflow_id, input_data, timeout>>,
                           <<[request |-> request, transport |-> t]>>, <<"send">>,
                           Some(inner), inner)
           /\ session' = session_apply(session, <<"send">>)
           /\ UNCHANGED <<api_key, base_url, in_with, base_url_defaulted>>

get_workflow_status(workflow_id) ==
    \E t \in Transport :
        LET request == get_request(session, status_url(base_url, workflow_id))
            outcome == get_workflow_status_outcome(t, t.modern)
        IN /\ last' = Call("get_workflow_status", <<workflow_id>>,
                           <<[request |-> request, transport |-> t]>>, <<"send">>,
                           None, outcome)
           /\ session' = session_apply(session, <<"send">>)
           /\ UNCHANGED <<api_key, base_url, in_with, base_url_defaulted>>

validate_workflow(workflow_id) ==
    \E t \in Transport :
        LET request == get_request(session, status_url(base_url, workflow_id))
            inner == get_workflow_status_outcome(t, t.modern)
        IN /\ last' = Call("validate_workflow", <<workflow_id>>,
                           <<[request |-> request, transport |-> t]>>, <<"send">>,
                           Some(inner), validate_outcome(inner))
           /\ session' = session_apply(session, <<"send">>)
           /\ UNCHANGED <<api_key, base_url, in_with, base_url_defaulted>>

set_api_key(key) ==
    /\ api_key' = key
    /\ session' = update_api_key_header(session, key)
    /\ last' = Call("set_api_key", <<key>>, <<>>, <<>>, None, Return(None))
    /\ UNCHANGED <<base_url, in_with, base_url_defaulted>>

set_base_url(url) ==
    /\ base_url' = normalize_base_url(url)
    /\ base_url_defaulted' = FALSE
    /\ last' = Call("set_base_url", <<url>>, <<>>, <<>>, None, Return(None))
    /\ UNCHANGED <<api_key, session, in_with>>

close ==
    /\ session' = session_apply(session, close_calls)
    /\ last' = [Call("close", <<>>, <<>>, close_calls, None, Return(None))
                    EXCEPT !.was_closed = session.closed]
    /\ UNCHANGED <<api_key, base_url, in_with, base_url_defaulted>>

\* `with client:` is entered: __enter__ returns self.
__enter__ ==
    /\ ~in_with
    /\ in_with' = TRUE
    /\ last' = Call("__enter__", <<>>, <<>>, <<>>, None, Return(None))
    /\ UNCHANGED <<api_key, base_url, session, base_url_defaulted>>

\* The with body ends, normally (body_exc = None) or by raising, and
\* __exit__(exc_type, exc_val, exc_tb) runs.
__exit__(body_exc) ==
    /\ in_with
    /\ in_with' = FALSE
    /\ session' = session_apply(session, exit_calls)
    /\ last' = [Call("__exit__", <<body_exc>>, <<>>, exit_calls,
                     Some(Return(exit_return)), with_outcome(body_exc, exit_return))
                    EXCEPT !.was_closed = session.closed]
    /\ UNCHANGED <<api_key, base_url, base_url_defaulted>>

BodyExceptions == {None, Some("RuntimeError")}

Next ==
    \/ \E w \in WorkflowIds, a \in ExecuteArgs : execute_workflow(w, a[1], a[2])
    \/ \E w \in WorkflowIds, a \in ExecuteArgs : execute_workflow_sync(w, a[1], a[2])
    \/ \E w \in WorkflowIds : get_workflow_status(w)
    \/ \E w \in WorkflowIds : validate_workflow(w)
    \/ \E key \in ApiKeys : set_api_key(key)
    \/ \E url \in BaseUrlArgs : set_base_url(url)
    \/ close
    \/ __enter__
    \/ \E e \in BodyExceptions : __exit__(e)

Spec == Init /\ [][Next]_vars

\* ================================================================== claims
\* The exchange of the latest call, for the calls that send a request.
Requesting == {"execute_workflow", "execute_workflow_sync", "get_workflow_status", "validate_workflow"}
LastTransport == last.sent[1].transport
LastResponse == last.sent[1].transport.response
LastRequest == last.sent[1].request
Is2xx(response) == 200 <= response.status_code /\ response.status_code < 300
IsClientOrServerError(response) == 400 <= response.status_code /\ response.status_code < 600
RaisedClientError == last.outcome.kind = "raise" /\ last.outcome.exc = "SimStudioError"

\* The ClientError the spec prescribes for a failure response with a JSON
\* object body.
ExpectedObjectError(response) ==
    [kind |-> "raise", exc |-> "SimStudioError",
     message |-> IF "error" \in DOMAIN response.body.value
                 THEN response.body.value.error
                 ELSE <<"HTTP ", str_int(response.status_code), ": ", response.reason>>,
     code |-> IF "code" \in DOMAIN response.body.value
              THEN <<response.body.value.code>> ELSE <<>>,
     status |-> <<response.status_code>>]

\* The ClientError the spec prescribes when the body gives no error and no code.
ExpectedFallbackError(response) ==
    [kind |-> "raise", exc |-> "SimStudioError",
     message |-> <<"HTTP ", str_int(response.status_code), ": ", response.reason>>,
     code |-> <<>>,
     status |-> <<response.status_code>>]

\* C1, for the 2xx responses whose body is a JSON object: every
\* execute_workflow and get_workflow_status call either returns a result or
\* raises SimStudioError, and no other kind of exception; when the body lacks
\* `success`, execute_workflow raises SimStudioError.
C1_ResultOrClientError ==
    (/\ last.op \in {"execute_workflow", "get_workflow_status"}
     /\ LastTransport.kind = "response"
     /\ Is2xx(LastResponse)
     /\ LastResponse.body.kind = "object")
        => /\ last.outcome.kind = "return" \/ RaisedClientError
           /\ (last.op = "execute_workflow" /\ "success" \notin DOMAIN LastResponse.body.value)
                 => RaisedClientError

C3_NonObjectFallback ==
    (/\ last.op \in {"execute_workflow", "get_workflow_status"}
     /\ LastTransport.kind = "response"
     /\ IsClientOrServerError(LastResponse)
     /\ LastResponse.body.kind # "object")
        => last.outcome = ExpectedFallbackError(LastResponse)

\* C4: validate_workflow never ends in SimStudioError: it sends the one status
\* request, returns is_deployed of the status when get_workflow_status returns
\* one (False when the body has no isDeployed) and False when
\* get_workflow_status raises SimStudioError; no other call turns a
\* SimStudioError into a return value.
C4_ValidateSwallowsClientError ==
    /\ last.op = "validate_workflow" =>
          /\ ~RaisedClientError
          /\ Len(last.sent) = 1 /\ LastRequest.method = "GET"
          /\ last.inner[1].kind = "return" =>
                /\ LastResponse.body.kind = "object"
                /\ last.outcome =
                      [kind |-> "return",
                       value |-> IF "isDeployed" \in DOMAIN LastResponse.body.value
                                 THEN LastResponse.body.value.isDeployed ELSE FALSE]
          /\ (last.inner[1].kind = "raise" /\ last.inner[1].exc = "SimStudioError")
                => last.outcome = [kind |-> "return", value |-> FALSE]
    /\ last.op = "execute_workflow_sync" => last.outcome = last.inner[1]
    /\ (/\ last.op \in {"execute_workflow", "execute_workflow_sync", "get_workflow_status"}
        /\ (LastTransport.kind # "response" \/ IsClientOrServerError(LastResponse)))
          => last.outcome.kind = "raise"

\* C4 witness: validate_workflow met a SimStudioError of get_workflow_status
\* and returned False.
C4_Witness ==
    /\ last.op = "validate_workflow"
    /\ last.inner[1].kind = "raise"
    /\ last.inner[1].exc = "SimStudioError"
    /\ last.inner[1].status = <<403>>
    /\ last.outcome = [kind |-> "return", value |-> FALSE]

\* C5: a transport failure gives an error without status, classified by call
\* and cause: execute_workflow past its deadline gives TIMEOUT with the
\* timeout in the message, never EXECUTION_ERROR; any other transport failure
\* of execute_workflow gives EXECUTION_ERROR with the cause; any transport
\* failure of get_workflow_status gives STATUS_ERROR with the cause.
C5_TransportFailureClassified ==
    (last.op \in {"execute_workflow", "get_workflow_status"} /\ LastTransport.kind # "response")
        => /\ RaisedClientError
           /\ last.outcome.status = <<>>
           /\ (last.op = "execute_workflow" /\ LastTransport.kind = "timeout") =>
                 /\ last.outcome.code = <<"TIMEOUT">>
                 /\ last.outcome.message =
                       <<"Workflow execution timed out after ",
                         (IF last.args[3] = 30 THEN "30.0" ELSE "5.0"), " seconds">>
           /\ (last.op = "execute_workflow" /\ LastTransport.kind = "connection_error") =>
                 /\ last.outcome.code = <<"EXECUTION_ERROR">>
                 /\ last.outcome.message = <<"Failed to execute workflow: ", "connection refused">>
           /\ last.op = "get_workflow_status" =>
                 /\ last.outcome.code = <<"STATUS_ERROR">>
                 /\ last.outcome.message =
                       <<"Failed to get workflow status: ",
                         (IF LastTransport.kind = "timeout" THEN "timed out"
                          ELSE "connection refused")>>

\* C5 witness: execute_workflow ran past a 5 second deadline.
C5_Witness ==
    /\ last.op = "execute_workflow"
    /\ last.args[3] = 5
    /\ LastTransport.kind = "timeout"
    /\ last.outcome.code = <<"TIMEOUT">>

EndsWithSlash(s) == s # <<>> /\ s[Len(s)] = "/"

\* The path the spec gives the request of the latest call.
ExpectedPath ==
    <<"/", "api", "/", "workflows", "/", last.args[1], "/",
      (IF last.op \in {"execute_workflow", "execute_workflow_sync"} THEN "execute" ELSE "status")>>

\* The base_url argument of the latest call, a constructor or set_base_url
\* call that was given one.
GaveBaseUrl ==
    \/ last.op = "set_base_url"
    \/ last.op = "__init__" /\ last.args[2] # <<>>
GivenBaseUrl == IF last.op = "set_base_url" THEN last.args[1] ELSE last.args[2][1]

\* C6: the stored base_url never ends with '/', and every request URL is
\* base_url followed by the path, with exactly one slash at the join.
C6_BaseUrlNeverEndsWithSlash ==
    /\ ~EndsWithSlash(base_url)
    /\ last.op \in Requesting =>
          LET url == LastRequest.url
              n == Len(base_url)
          IN /\ Len(url) = n + 8
             /\ SubSeq(url, 1, n) = base_url
             /\ SubSeq(url, n + 1, n + 8) = ExpectedPath
             /\ n > 0 => url[n] # "/"
             /\ url[n + 1] = "/" /\ url[n + 2] # "/"

\* C6 witness: set_base_url was given a URL that ends with '/'.
C6_Witness ==
    /\ last.op = "set_base_url"
    /\ last.args[1] = <<"https://test.sim.ai", "/">>
    /\ base_url = <<"https://test.sim.ai">>

\* C7 as stated: the constructor and set_base_url remove exactly one trailing
\* slash when the argument ends with '/', and leave it unchanged otherwise.
C7_RemovesExactlyOneSlash ==
    GaveBaseUrl =>
        base_url = (IF EndsWithSlash(GivenBaseUrl)
                    THEN SubSeq(GivenBaseUrl, 1, Len(GivenBaseUrl) - 1)
                    ELSE GivenBaseUrl)

\* C7 amended: the constructor and set_base_url remove every trailing slash:
\* the stored base_url is the longest prefix of the argument that does not end
\* with '/', and is the argument itself when that does not end with '/'.
C7_RemovesEveryTrailingSlash ==
    GaveBaseUrl =>
        LET n == Len(base_url)
        IN /\ n <= Len(GivenBaseUrl)
           /\ SubSeq(GivenBaseUrl, 1, n) = base_url
           /\ \A i \in (n + 1)..Len(GivenBaseUrl) : GivenBaseUrl[i] = "/"
           /\ ~EndsWithSlash(base_url)
           /\ ~EndsWithSlash(GivenBaseUrl) => base_url = GivenBaseUrl

\* C7 witness: the constructor was given a URL that ends with two slashes.
C7_Witness ==
    /\ last.op = "__init__"
    /\ last.args[2] = <<(<<"https://test.sim.ai", "/", "/">>)>>
    /\ base_url = <<"https://test.sim.ai">>

\* C8: the api_key attribute and the session's X-API-Key header are equal
\* after every call; api_key and base_url change only by their setters, to the
\* value given (base_url trimmed); every request goes to the URL built from
\* the current base_url and carries the current api_key in X-API-Key.
C8_SettersTakeEffect ==
    /\ [](session.headers.X_API_Key = api_key)
    /\ [](last.op \in Requesting =>
             /\ LastRequest.headers.X_API_Key = api_key
             /\ LastRequest.url = base_url \o ExpectedPath)
    /\ [][/\ IF last'.op = "set_api_key" THEN api_key' = last'.args[1]
                                         ELSE api_key' = api_key
          /\ last'.op # "set_base_url" => base_url' = base_url
          /\ last'.op = "set_base_url" =>
                /\ Len(base_url') <= Len(last'.args[1])
                /\ base_url' = SubSeq(last'.args[1], 1, Len(base_url'))
                /\ \A i \in (Len(base_url') + 1)..Len(last'.args[1]) : last'.args[1][i] = "/"
                /\ ~EndsWithSlash(base_url')]_vars

\* C8 witness: a request went out with the key set_api_key was given (the
\* constructor's was "test-api-key") to a URL on a base_url that is not the
\* default.
C8_Witness ==
    /\ last.op \in Requesting
    /\ api_key = "new-api-key"
    /\ LastRequest.headers.X_API_Key = "new-api-key"
    /\ ~base_url_defaulted
    /\ LastRequest.url = <<"https://test.sim.ai", "/", "api", "/", "workflows", "/",
                           "wf-2", "/", "status">>

\* C9: a client constructed without a base_url has base_url "https://sim.ai",
\* and its status request for a workflow goes to
\* "https://sim.ai/api/workflows/{id}/status".
C9_DefaultBaseUrl ==
    base_url_defaulted =>
        /\ base_url = <<"https://sim.ai">>
        /\ last.op \in {"get_workflow_status", "validate_workflow"} =>
              LastRequest.url = <<"https://sim.ai", "/", "api", "/", "workflows", "/",
                                  last.args[1], "/", "status">>

Count(calls, c) == Cardinality({i \in DOMAIN calls : calls[i] = c})

\* C10: close never raises and leaves the session released, also when the
\* session was closed before; leaving a with block calls close exactly once,
\* whether the body ended normally or raised, and the body's exception
\* propagates.
C10_CloseIdempotentExitClosesOnce ==
    /\ last.op = "close" =>
          /\ last.outcome.kind = "return"
          /\ session.closed
    /\ last.op = "__exit__" =>
          /\ Count(last.session_calls, "close") = 1
          /\ session.closed
          /\ last.args[1] = <<>> => last.outcome.kind = "return"
          /\ last.args[1] # <<>> =>
                /\ last.outcome.kind = "raise"
                /\ last.outcome.exc = last.args[1][1]

\* C10 witness: the body of a with block closed the client and then raised,
\* so that __exit__ closed it a second time.
C10_Witness ==
    /\ last.op = "__exit__"
    /\ last.was_closed
    /\ last.args[1] = <<"RuntimeError">>
    /\ session.closed
    /\ last.outcome.kind = "raise"

\* C11: nothing is retried. execute_workflow, execute_workflow_sync,
\* get_workflow_status and validate_workflow each send exactly one request,
\* a POST to the execute URL for the first two and a GET to the status URL
\* for the others, whatever the exchange ends in; set_api_key, set_base_url
\* and close send none; execute_workflow_sync sends the request, and ends in
\* the result or error, that execute_workflow gives for the same arguments.
C11_OneRequestPerCall ==
    /\ last.op \in Requesting =>
          /\ Len(last.sent) = 1
          /\ LastRequest.method =
                (IF last.op \in {"execute_workflow", "execute_workflow_sync"}
                 THEN "POST" ELSE "GET")
          /\ LastRequest.url = base_url \o ExpectedPath
    /\ last.op \in {"set_api_key", "set_base_url", "close"} => last.sent = <<>>
    /\ last.op = "execute_workflow_sync" =>
          /\ LastRequest =
                [method |-> "POST",
                 url |-> base_url \o <<"/", "api", "/", "workflows", "/", last.args[1],
                                       "/", "execute">>,
                 headers |-> [X_API_Key |-> api_key, Content_Type |-> "application/json"],
                 json |-> <<(IF last.args[2] = "None" THEN "{}" ELSE last.args[2])>>,
                 timeout |-> <<last.args[3]>>]
          /\ last.outcome =
                execute_workflow_outcome(LastTransport, last.args[3], LastTransport.modern)

\* C11 witness: an execute_workflow_sync call with both arguments given ran
\* past its deadline after its one request and ended in TIMEOUT.
C11_Witness ==
    /\ last.op = "execute_workflow_sync"
    /\ last.args[3] = 5
    /\ Len(last.sent) = 1
    /\ LastTransport.kind = "timeout"
    /\ last.outcome.kind = "raise"
    /\ last.outcome.code = <<"TIMEOUT">>

====
